---- MODULE Spec2Model ----
(***************************************************************************)
(* A model of the type-level programs of TypeScript-Tiny-Book              *)
(* (packages/type-challenges): the structural transformation primitives    *)
(* MyPick, MyOmit, MyExclude, MyExtract, MyReadonly, MyMutable and the     *)
(* assertion utilities Equal, IsAny, NotAny, Expect.  A behaviour is the   *)
(* evaluation of one type expression: the state holds the expression's     *)
(* operator and arguments, the type it evaluates to and the compiler's     *)
(* verdict on it.                                                          *)
(***************************************************************************)
EXTENDS Integers, FiniteSets, Sequences

VARIABLES op, args, res, verdict, pending, steps

vars == <<op, args, res, verdict, pending, steps>>

(***************************************************************************)
(* Bounds of the type universe.                                            *)
(***************************************************************************)
MaxKeys == 2

KeyNames == <<"a", "b", "c", "d">>

Keys == {KeyNames[i] : i \in 1..MaxKeys}

(***************************************************************************)
(* Structural type model.  A type is one of                                *)
(*   any, unknown                                                          *)
(*   a union of unit types (members): primitives and literals; the union   *)
(*     of no member is never, boolean is true | false                      *)
(*   a record (object) type: attrs maps each property name to its value    *)
(*     type vt, its readonly flag ro and its optional flag opt             *)
(*   a literal intersected with a non-empty object type ("brand")          *)
(* All carry the same three fields so that they can be compared.           *)
(***************************************************************************)
StringLits == {KeyNames[i] : i \in 1..Len(KeyNames)}

NumberLits == {"0", "1"}

BooleanLits == {"true", "false"}

Nullish == {"null", "undefined"}

Atoms == StringLits \cup NumberLits \cup BooleanLits \cup Nullish \cup {"string", "number"}

NoAttrs == [k \in {} |-> 0]

Any == [kind |-> "any", members |-> {}, attrs |-> NoAttrs]

Unknown == [kind |-> "unknown", members |-> {}, attrs |-> NoAttrs]

\* A literal type is a subtype of its primitive; every unit type of itself.
AtomSub(m, u) ==
    \/ m = u
    \/ m \in StringLits /\ u = "string"
    \/ m \in NumberLits /\ u = "number"

\* Union (literal) reduction: a literal next to its own primitive is absorbed.
Reduce(S) == {m \in S : ~ \E u \in S : u # m /\ AtomSub(m, u)}

Union(S) == [kind |-> "union", members |-> Reduce(S), attrs |-> NoAttrs]

Never == Union({})

Lit(a) == Union({a})

True == Lit("true")

False == Lit("false")

Record(as) == [kind |-> "record", members |-> {}, attrs |-> as]

\* The result slot of an expression the compiler rejects: no type at all.
NoType == [kind |-> "error", members |-> {}, attrs |-> NoAttrs]

\* A | B for the operand shapes the conditional types below produce.
UnionOf(A, B) ==
    IF A.kind = "any" \/ B.kind = "any" THEN Any
    ELSE IF A.kind = "unknown" \/ B.kind = "unknown" THEN Unknown
    ELSE IF A = Never THEN B
    ELSE IF B = Never THEN A
    ELSE Union(A.members \cup B.members)

\* keyof T of a record type: the union of its property names.
KeyOf(T) == Union(DOMAIN T.attrs)

\* T[P]: the type read from property P; an optional property reads as
\* its declared type | undefined, which vt already holds.
IndexAccess(T, P) == T.attrs[P].vt

(***************************************************************************)
(* "S extends T": assignability.  readonly plays no part in it; an         *)
(* optional property is not assignable to a required one; a target whose   *)
(* properties are all optional (a weak type) needs a property in common.   *)
(***************************************************************************)
IsWeak(T) ==
    /\ T.kind = "record"
    /\ DOMAIN T.attrs # {}
    /\ \A p \in DOMAIN T.attrs : T.attrs[p].opt

AtomAssignable(m, T) ==
    \/ T.kind = "union" /\ \E u \in T.members : AtomSub(m, u)
    \/ T.kind = "record" /\ DOMAIN T.attrs = {} /\ m \notin Nullish

RECURSIVE Assignable(_, _)
Assignable(S, T) ==
    IF S.kind = "any" THEN T # Never
    ELSE IF T.kind \in {"any", "unknown"} THEN TRUE
    ELSE IF S.kind = "unknown" THEN FALSE
    ELSE IF S.kind = "union" THEN \A m \in S.members : AtomAssignable(m, T)
    ELSE IF S.kind = "brand"
         THEN Assignable(Union(S.members), T) \/ Assignable(Record(S.attrs), T)
    ELSE /\ T.kind = "record"
         /\ \A p \in DOMAIN T.attrs :
               IF p \in DOMAIN S.attrs
               THEN /\ S.attrs[p].opt => T.attrs[p].opt
                    /\ Assignable(S.attrs[p].vt, T.attrs[p].vt)
               ELSE T.attrs[p].opt
         /\ ~ ( /\ IsWeak(T)
                /\ DOMAIN S.attrs # {}
                /\ DOMAIN S.attrs \cap DOMAIN T.attrs = {} )

\* ExpectExtends<VALUE, EXPECTED> = EXPECTED extends VALUE ? true : false
Conforms(M, U) == Assignable(M, U)

(***************************************************************************)
(* Conditional types.  Cond is "C extends E ? X : Y" for one check type C: *)
(* a check type any selects both branches unless E is any or unknown.      *)
(* A conditional type whose check type is a naked type parameter is        *)
(* distributive: instantiated with a union it is evaluated for each member *)
(* and the results are united; never has no member.                        *)
(***************************************************************************)
Cond(C, E, X, Y) ==
    IF C.kind = "any" /\ E.kind \notin {"any", "unknown"} THEN UnionOf(X, Y)
    ELSE IF Conforms(C, E) THEN X
    ELSE Y

\* MyExclude with the check type wrapped, so that it no longer distributes.
MyExcludeNoDist(T, U) == Cond(T, U, Never, T)

\* MyExclude with its two branches exchanged.
MyExcludeSwapped(T, U) ==
    IF T.kind = "union"
    THEN Union(UNION {Cond(Lit(m), U, Lit(m), Never).members : m \in T.members})
    ELSE Cond(T, U, T, Never)

\* type MyExclude<T, U> = T extends U ? never : T
MyExclude(T, U) ==
    IF T.kind = "union"
    THEN Union(UNION {Cond(Lit(m), U, Never, Lit(m)).members : m \in T.members})
    ELSE Cond(T, U, Never, T)

\* MyExtract with the check type wrapped, so that it no longer distributes.
MyExtractNoDist(T, U) == Cond(T, U, T, Never)

\* type MyExtract<T, U> = T extends U ? T : never
MyExtract(T, U) ==
    IF T.kind = "union"
    THEN Union(UNION {Cond(Lit(m), U, Lit(m), Never).members : m \in T.members})
    ELSE Cond(T, U, T, Never)

(***************************************************************************)
(* Mapped types.  { [P in K]: T[P] } with K a type parameter constrained   *)
(* to keyof T, and { [P in keyof T]: T[P] }, are homomorphic: each         *)
(* property takes the readonly and optional modifiers of T's property,     *)
(* then the mapped type's own +/- modifiers.  A mapped type over any other *)
(* key type (a conditional type such as MyExclude<keyof T, K>) takes no    *)
(* modifiers from T.                                                       *)
(***************************************************************************)
\* MyPick as a mapped type that is not homomorphic: T's modifiers are lost.
MyPickPlain(T, K) ==
    Record([P \in K.members |-> [vt |-> IndexAccess(T, P), ro |-> FALSE, opt |-> FALSE]])

\* type MyPick<T, K extends keyof T> = { [P in K]: T[P] }
MyPick(T, K) ==
    Record([P \in K.members |->
              [vt |-> IndexAccess(T, P), ro |-> T.attrs[P].ro, opt |-> T.attrs[P].opt]])

\* type MyOmit<T, K extends keyof T> = { [P in MyExclude<keyof T, K>]: T[P] }
MyOmit(T, K) ==
    Record([P \in MyExclude(KeyOf(T), K).members |->
              [vt |-> IndexAccess(T, P), ro |-> FALSE, opt |-> FALSE]])

\* type MyOmit<T, K extends keyof T> = Pick<T, Exclude<keyof T, K>>
DocOmit(T, K) == MyPick(T, MyExclude(KeyOf(T), K))

\* MyReadonly that also strips the optional modifier (readonly [K in keyof T]-?).
MyReadonlyRequired(T) ==
    Record([K \in KeyOf(T).members |->
              [vt |-> IndexAccess(T, K), ro |-> TRUE, opt |-> FALSE]])

\* type MyReadonly<T> = { readonly [K in keyof T]: T[K] }
MyReadonly(T) ==
    Record([K \in KeyOf(T).members |->
              [vt |-> IndexAccess(T, K), ro |-> TRUE, opt |-> T.attrs[K].opt]])

\* type MyMutable<T> = { -readonly [K in keyof T]: T[K] }
MyMutable(T) ==
    Record([K \in KeyOf(T).members |->
              [vt |-> IndexAccess(T, K), ro |-> FALSE, opt |-> T.attrs[K].opt]])

(***************************************************************************)
(* Equal<X, Y> =                                                           *)
(*   (<T>() => T extends X ? 1 : 2) extends (<T>() => T extends Y ? 1 : 2) *)
(*     ? true : false                                                      *)
(* The two wrapped forms are generic functions returning a conditional     *)
(* type that stays unresolved in T.  The first is assignable to the second *)
(* when their extends-types X and Y are identical types: the identity      *)
(* relation below, which walks X's properties against Y's and compares the *)
(* readonly and optional modifiers as well as the value types.             *)
(***************************************************************************)
\* Equality as mutual assignability, which modifiers do not all affect.
IsMutuallyAssignable(S, T) == Assignable(S, T) /\ Assignable(T, S)

\* The identity relation walking S against T only, without comparing the
\* number of properties or walking T's members back against S.
RECURSIVE IsTypeIdenticalOneWay(_, _)
IsTypeIdenticalOneWay(S, T) ==
    IF S.kind # T.kind THEN FALSE
    ELSE IF S.kind \in {"any", "unknown"} THEN TRUE
    ELSE IF S.kind = "union"
         THEN \A m \in S.members : \E u \in T.members : m = u
    ELSE /\ S.members = T.members
         /\ \A p \in DOMAIN S.attrs :
               /\ p \in DOMAIN T.attrs
               /\ S.attrs[p].ro = T.attrs[p].ro
               /\ S.attrs[p].opt = T.attrs[p].opt
               /\ IsTypeIdenticalOneWay(S.attrs[p].vt, T.attrs[p].vt)

RECURSIVE IsTypeIdenticalTo(_, _)
IsTypeIdenticalTo(S, T) ==
    IF S.kind # T.kind THEN FALSE
    ELSE IF S.kind \in {"any", "unknown"} THEN TRUE
    ELSE IF S.kind = "union"
         THEN /\ \A m \in S.members : \E u \in T.members : m = u
              /\ \A u \in T.members : \E m \in S.members : u = m
    ELSE /\ S.members = T.members
         /\ Cardinality(DOMAIN S.attrs) = Cardinality(DOMAIN T.attrs)
         /\ \A p \in DOMAIN S.attrs :
               /\ p \in DOMAIN T.attrs
               /\ S.attrs[p].ro = T.attrs[p].ro
               /\ S.attrs[p].opt = T.attrs[p].opt
               /\ IsTypeIdenticalTo(S.attrs[p].vt, T.attrs[p].vt)

Equal(X, Y) == IF IsTypeIdenticalTo(X, Y) THEN True ELSE False

(***************************************************************************)
(* L & T for a literal type L: any absorbs the intersection, unknown and   *)
(* {} leave L, disjoint unit types give never, and an object type with     *)
(* properties stays next to the literal as an intersection.                *)
(***************************************************************************)
\* L & T with unknown absorbing the intersection the way any does.
IntersectAbsorbsTop(L, T) ==
    IF T.kind \in {"any", "unknown"} THEN Any
    ELSE IF T.kind = "union"
         THEN Union({m \in L.members : \E u \in T.members : AtomSub(m, u)}
                    \cup {u \in T.members : \E m \in L.members : AtomSub(u, m)})
    ELSE IF DOMAIN T.attrs = {} THEN Union(L.members \ Nullish)
    ELSE [kind |-> "brand", members |-> L.members, attrs |-> T.attrs]

Intersect(L, T) ==
    IF T.kind = "any" THEN Any
    ELSE IF T.kind = "unknown" THEN L
    ELSE IF T.kind = "union"
         THEN Union({m \in L.members : \E u \in T.members : AtomSub(m, u)}
                    \cup {u \in T.members : \E m \in L.members : AtomSub(u, m)})
    ELSE IF DOMAIN T.attrs = {} THEN Union(L.members \ Nullish)
    ELSE [kind |-> "brand", members |-> L.members, attrs |-> T.attrs]

\* IsAny<T> = 0 extends (1 & T) ? true : false
IsAny(T) == Cond(Lit("0"), Intersect(Lit("1"), T), True, False)

\* NotAny<T> = true extends IsAny<T> ? false : true
NotAny(T) == Cond(True, IsAny(T), False, True)

\* A type argument satisfies a type parameter's constraint "P extends C".
Satisfies(A, C) == Assignable(A, C)

\* Expect<T extends true> = T
Expect(T) == T

(***************************************************************************)
(* Intersections of object types.  A & B of two object types is kept as an *)
(* intersection: its two constituents are held under "left" and "right".   *)
(***************************************************************************)
Inter(A, B) ==
    [kind |-> "inter", members |-> {},
     attrs |-> [i \in {"left", "right"} |->
                  [vt |-> IF i = "left" THEN A ELSE B, ro |-> FALSE, opt |-> FALSE]]]

\* type SomeReadonly<T, K extends keyof T> =
\*   { readonly [P in K]: T[P] } & { [P in Exclude<keyof T, K>]: T[P] }
SomeReadonly(T, K) ==
    Inter(Record([P \in K.members |->
                    [vt |-> IndexAccess(T, P), ro |-> TRUE, opt |-> T.attrs[P].opt]]),
          Record([P \in MyExclude(KeyOf(T), K).members |->
                    [vt |-> IndexAccess(T, P), ro |-> FALSE, opt |-> FALSE]]))

\* The value type of a property that both constituents of an intersection
\* declare: the intersection of the two value types.
MeetTypes(A, B) ==
    IF A.kind = "union" /\ B.kind = "union"
    THEN Union({m \in A.members : \E u \in B.members : AtomSub(m, u)}
               \cup {u \in B.members : \E m \in A.members : AtomSub(u, m)})
    ELSE Inter(A, B)

\* MergeInsertions<T>: every intersection of object types is replaced by the
\* one object type that has the properties of both constituents, at every
\* level of nesting; a property is readonly or optional in the merged type
\* when it is so in every constituent that declares it.
RECURSIVE MergeInsertions(_)
MergeInsertions(T) ==
    IF T.kind = "record"
    THEN Record([p \in DOMAIN T.attrs |->
                   [vt  |-> MergeInsertions(T.attrs[p].vt),
                    ro  |-> T.attrs[p].ro,
                    opt |-> T.attrs[p].opt]])
    ELSE IF T.kind = "inter"
    THEN LET A == MergeInsertions(T.attrs["left"].vt)
             B == MergeInsertions(T.attrs["right"].vt)
         IN  IF A.kind # "record" \/ B.kind # "record" THEN T
             ELSE Record([p \in DOMAIN A.attrs \cup DOMAIN B.attrs |->
                     IF p \notin DOMAIN B.attrs THEN A.attrs[p]
                     ELSE IF p \notin DOMAIN A.attrs THEN B.attrs[p]
                     ELSE [vt  |-> MergeInsertions(MeetTypes(A.attrs[p].vt, B.attrs[p].vt)),
                           ro  |-> A.attrs[p].ro /\ B.attrs[p].ro,
                           opt |-> A.attrs[p].opt /\ B.attrs[p].opt]])
    ELSE T

\* Equal without the merge of intersections.
AlikeNoMerge(X, Y) == Equal(X, Y)

\* Alike<X, Y> = Equal<MergeInsertions<X>, MergeInsertions<Y>>
Alike(X, Y) == Equal(MergeInsertions(X), MergeInsertions(Y))

(***************************************************************************)
(* Object types other than records.  A function type has no property that  *)
(* keyof sees; an array type X[] has its element type under the number     *)
(* index, readonly for a readonly X[]; "X | undefined" of an object type X *)
(* (the type read from an optional property of object type) holds X under  *)
(* "object" next to its unit members.                                      *)
(***************************************************************************)
FunctionType == [kind |-> "function", members |-> {}, attrs |-> NoAttrs]

ArrayOf(E, readonly) ==
    [kind |-> "array", members |-> {},
     attrs |-> [i \in {"number"} |-> [vt |-> E, ro |-> readonly, opt |-> FALSE]]]

ObjectOr(X, S) ==
    [kind |-> "objunion", members |-> S,
     attrs |-> [i \in {"object"} |-> [vt |-> X, ro |-> FALSE, opt |-> FALSE]]]

\* "V extends object": records, arrays and functions are objects, and so is
\* never; a primitive, a literal and a union with undefined are not.
ExtendsObject(V) ==
    \/ V.kind \in {"record", "array", "function", "inter"}
    \/ V = Never

\* type DeepReadonly<T> = {
\*   readonly [P in keyof T]: T[P] extends object ? DeepReadonly<T[P]> : T[P] }
\* The check type T[P] is not a naked type parameter: the conditional does
\* not distribute.  The mapped type is homomorphic in T: instantiated with
\* an array type it maps the element type and yields a readonly array, and
\* with a function type, which has no keys, it yields {}.
RECURSIVE DeepReadonly(_)
DeepReadonly(T) ==
    IF T.kind \in {"record", "array"}
    THEN [T EXCEPT !.attrs =
            [P \in DOMAIN T.attrs |->
               [vt  |-> LET V == IndexAccess(T, P)
                        IN  IF V.kind = "any" THEN Any
                            ELSE IF ExtendsObject(V) THEN DeepReadonly(V)
                            ELSE V,
                ro  |-> TRUE,
                opt |-> T.attrs[P].opt]]]
    ELSE IF T.kind = "function" THEN Record(NoAttrs)
    ELSE T

\* The instantiations DeepReadonly<T[P]> that one instantiation DeepReadonly<T>
\* asks for, in the order of T's properties.
RECURSIVE Instantiations(_, _)
Instantiations(T, i) ==
    IF i > Len(KeyNames) THEN << >>
    ELSE (IF /\ KeyNames[i] \in DOMAIN T.attrs
             /\ ExtendsObject(T.attrs[KeyNames[i]].vt)
          THEN <<T.attrs[KeyNames[i]].vt>> ELSE << >>)
         \o Instantiations(T, i + 1)

NestedInstantiations(T) ==
    IF T.kind = "record" THEN Instantiations(T, 1)
    ELSE IF T.kind = "array" /\ ExtendsObject(T.attrs["number"].vt)
    THEN <<T.attrs["number"].vt>>
    ELSE << >>

\* The object type a type literal with the property declarations d denotes.
TypeLiteral(d) ==
    Record([n \in {d[i].name : i \in DOMAIN d} |->
              LET i == CHOOSE i \in DOMAIN d : d[i].name = n
              IN  [vt  |-> IF d[i].opt THEN UnionOf(d[i].vt, Lit("undefined")) ELSE d[i].vt,
                   ro  |-> d[i].ro,
                   opt |-> d[i].opt]])

(***************************************************************************)
(* Mapped types with an as clause, { [K in keyof T as N]: T[K] }, over the *)
(* type literal T with the property declarations d (in declaration order). *)
(* nk[K] is the key type N evaluates to for the property K: never drops    *)
(* the property.  Properties are added in declaration order; when a later  *)
(* property yields a key that is already there, it is merged into the      *)
(* existing one: no error is reported, the modifiers stay those of the     *)
(* first property and the value type is read with the union of the keys.   *)
(* The mapping is over keyof T, so the modifiers of T are carried over.    *)
(***************************************************************************)
RECURSIVE UnionOfAll(_)
UnionOfAll(ts) == IF ts = << >> THEN Never ELSE UnionOf(Head(ts), UnionOfAll(Tail(ts)))

SourcesOf(d, nk, k) == {i \in DOMAIN d : k \in nk[d[i].name].members}

\* The same mapping over a key type that is not keyof T: modifiers dropped.
RenameFilterPlain(d, nk) ==
    LET T == TypeLiteral(d)
    IN  Record([k \in UNION {nk[d[i].name].members : i \in DOMAIN d} |->
                 [vt  |-> UnionOfAll([i \in DOMAIN d |->
                             IF i \in SourcesOf(d, nk, k)
                             THEN IndexAccess(T, d[i].name) ELSE Never]),
                  ro  |-> FALSE,
                  opt |-> FALSE]])

RenameFilter(d, nk) ==
    LET T == TypeLiteral(d)
    IN  Record([k \in UNION {nk[d[i].name].members : i \in DOMAIN d} |->
                 LET first == CHOOSE i \in SourcesOf(d, nk, k) :
                                 \A j \in SourcesOf(d, nk, k) : i <= j
                     read  == UnionOfAll([i \in DOMAIN d |->
                                 IF i \in SourcesOf(d, nk, k)
                                 THEN IndexAccess(T, d[i].name) ELSE Never])
                 IN  [vt  |-> IF d[first].opt THEN UnionOf(read, Lit("undefined")) ELSE read,
                      ro  |-> d[first].ro,
                      opt |-> d[first].opt]])

DeclaredNames(d) == {d[i].name : i \in DOMAIN d}

\* { [K in keyof T as K]: T[K] }
IdentityRename(d) == RenameFilter(d, [K \in DeclaredNames(d) |-> Lit(K)])

\* Debug<T> = { [K in keyof T]: T[K] }
Debug(T) ==
    Record([K \in KeyOf(T).members |->
              [vt |-> IndexAccess(T, K), ro |-> T.attrs[K].ro, opt |-> T.attrs[K].opt]])

\* A matcher that binds Rest after the longest part of P that K begins with.
RECURSIVE CommonPrefixLen(_, _)
CommonPrefixLen(K, P) ==
    IF K = "" \/ P = "" \/ SubSeq(K, 1, 1) # SubSeq(P, 1, 1) THEN 0
    ELSE 1 + CommonPrefixLen(SubSeq(K, 2, Len(K)), SubSeq(P, 2, Len(P)))

RemovePrefixKeyPartial(K, P) == Lit(SubSeq(K, CommonPrefixLen(K, P) + 1, Len(K)))

\* K extends `${P}${infer Rest}` ? Rest : K, for string literals K and P:
\* the pattern matches when K begins with the whole of P, and Rest is then
\* what follows P in K (possibly the empty string).
StartsWith(K, P) == Len(P) <= Len(K) /\ SubSeq(K, 1, Len(P)) = P

RemovePrefixKey(K, P) ==
    IF StartsWith(K, P) THEN Lit(SubSeq(K, Len(P) + 1, Len(K))) ELSE Lit(K)

\* type RemovePrefix<T, P extends string> =
\*   { [K in keyof T as K extends `${P}${infer Rest}` ? Rest : K]: T[K] }
RemovePrefix(d, P) ==
    RenameFilter(d, [K \in DeclaredNames(d) |-> RemovePrefixKey(K, P)])

\* type ConditionalRename<T, Condition, NewName> =
\*   { [K in keyof T as K extends Condition ? NewName : K]: T[K] }
ConditionalRename(d, Condition, NewName) ==
    RenameFilter(d, [K \in DeclaredNames(d) |-> Cond(Lit(K), Condition, NewName, Lit(K))])

(***************************************************************************)
(* Tuple types.  A tuple of literal types has one element type per         *)
(* position, held under the position's index; readonly for a readonly      *)
(* tuple.                                                                  *)
(***************************************************************************)
IndexNames == <<"0", "1", "2", "3", "4">>

TupleOf(es, readonly) ==
    [kind |-> "tuple", members |-> {},
     attrs |-> [i \in {IndexNames[j] : j \in DOMAIN es} |->
                  LET j == CHOOSE j \in DOMAIN es : IndexNames[j] = i
                  IN  [vt |-> Lit(es[j]), ro |-> readonly, opt |-> FALSE]]]

\* T extends readonly any[]: arrays and tuples, readonly or not.
ExtendsReadonlyArray(T) == T.kind \in {"any", "tuple", "array"} \/ T = Never

\* T[number] of a tuple: the union of its element types.
IndexNumber(T) == Union(UNION {T.attrs[i].vt.members : i \in DOMAIN T.attrs})

\* A key type gives a property when it is a string or number literal type;
\* the mapped type has no property for any other unit type.
IsUsableAsPropertyName(m) == m \in StringLits \cup NumberLits

\* type TupleToObject<T extends readonly any[]> = { [P in T[number]]: P }
TupleToObject(T) ==
    Record([P \in {m \in IndexNumber(T).members : IsUsableAsPropertyName(m)} |->
              [vt |-> Lit(P), ro |-> FALSE, opt |-> FALSE]])

(***************************************************************************)
(* The type expressions evaluated.  Object type literals are written as a  *)
(* sequence of property declarations; an optional property's type includes *)
(* undefined.                                                              *)
(***************************************************************************)
BaseValueTypes == {Lit("number"), Lit("string")}

PropDecl == [name : Keys, vt : BaseValueTypes, ro : BOOLEAN, opt : BOOLEAN]

Decls ==
    UNION {{d \in [1..n -> PropDecl] : \A i, j \in 1..n : d[i].name = d[j].name => i = j}
             : n \in 0..MaxKeys}

RecordTypes == {TypeLiteral(d) : d \in Decls}

KeyUnions == {Union(S) : S \in SUBSET Keys}

UnionAtoms == {"a", "b", "c", "string", "number", "true", "false", "null"}

UnionTypes == {Union(S) : S \in SUBSET UnionAtoms}

TopTypes == {Any, Unknown}

ScalarTypes == {Never, Lit("number"), Lit("string"), Lit("0"), Lit("1"), Lit("a"),
                Union(BooleanLits), True, False, Union({"number", "undefined"})}

AllTypes == RecordTypes \cup UnionTypes \cup ScalarTypes \cup TopTypes

EqualTypes == RecordTypes \cup ScalarTypes \cup TopTypes

(***************************************************************************)
(* Nested records: property a holds a leaf type or a record one level      *)
(* shallower, with either modifier; property b holds a leaf type.          *)
(***************************************************************************)
MaxDepth == 2

LeafTypes == {Lit("number"), FunctionType, ArrayOf(Lit("string"), FALSE)}

OptionalOf(V) ==
    IF V.kind = "union" THEN UnionOf(V, Lit("undefined"))
    ELSE ObjectOr(V, {"undefined"})

RECURSIVE DeepRecords(_)
DeepRecords(d) ==
    LET below == IF d <= 1 THEN LeafTypes ELSE LeafTypes \cup DeepRecords(d - 1)
        A == {<< >>} \cup
             {<<[vt  |-> IF o THEN OptionalOf(V) ELSE V, ro |-> r, opt |-> o]>> :
                  V \in below, r \in BOOLEAN, o \in BOOLEAN}
        B == {<< >>} \cup {<<[vt |-> V, ro |-> FALSE, opt |-> FALSE]>> : V \in LeafTypes}
    IN  {Record([k \in (IF x = << >> THEN {} ELSE {"a"})
                        \cup (IF y = << >> THEN {} ELSE {"b"}) |->
                   IF k = "a" THEN x[1] ELSE y[1]]) : x \in A, y \in B}

DeepTypes == DeepRecords(MaxDepth)

(***************************************************************************)
(* Type literals whose property names begin with one another, and the      *)
(* prefixes removed from them.                                             *)
(***************************************************************************)
PrefixedNames == {"a", "b", "ab", "ba"}

Prefixes == {"", "a", "b", "ab"}

PrefixedDecls ==
    LET decl == [name : PrefixedNames, vt : BaseValueTypes, ro : BOOLEAN, opt : BOOLEAN]
    IN  UNION {{d \in [1..n -> decl] : \A i, j \in 1..n : d[i].name = d[j].name => i = j}
                 : n \in 0..MaxKeys}

NewNames == {Never} \cup {Lit(k) : k \in Keys}

(***************************************************************************)
(* Operands of Alike: records of number-valued properties, and the         *)
(* intersections of two of them that declare different properties (an     *)
(* empty object type is dropped from an intersection, so both have some).  *)
(***************************************************************************)
AlikeRecords == {T \in RecordTypes : \A p \in DOMAIN T.attrs : "number" \in T.attrs[p].vt.members}

AlikeIntersections ==
    UNION {{Inter(A, B) : B \in {R \in AlikeRecords :
                                      /\ DOMAIN R.attrs # {}
                                      /\ DOMAIN R.attrs \cap DOMAIN A.attrs = {}}}
             : A \in {R \in AlikeRecords : DOMAIN R.attrs # {}}}

(***************************************************************************)
(* Tuples of string, number and boolean literals.                          *)
(***************************************************************************)
MaxTupleLen == 3

ElementLits == {"a", "b", "0", "1", "true", "false"}

Tuples ==
    {TupleOf(es, r) : es \in UNION {[1..n -> ElementLits] : n \in 0..MaxTupleLen},
                      r \in BOOLEAN}

(***************************************************************************)
(* Evaluation of one type expression.                                      *)
(***************************************************************************)
Init ==
    /\ op = "idle"
    /\ args = << >>
    /\ res = NoType
    /\ verdict = "none"
    /\ pending = << >>
    /\ steps = 0

\* The expression name<a> is accepted with type r, or rejected without one.
Eval(name, a, ok, r) ==
    /\ op' = name
    /\ args' = a
    /\ verdict' = IF ok THEN "accepted" ELSE "rejected"
    /\ res' = IF ok THEN r ELSE NoType
    /\ UNCHANGED <<pending, steps>>

MyPickOp ==
    /\ op = "idle"
    /\ \E T \in RecordTypes, K \in KeyUnions :
        Eval("MyPick", <<T, K>>, Satisfies(K, KeyOf(T)), MyPick(T, K))

MyOmitOp ==
    /\ op = "idle"
    /\ \E T \in RecordTypes, K \in KeyUnions :
        Eval("MyOmit", <<T, K>>, Satisfies(K, KeyOf(T)), MyOmit(T, K))

MyExcludeOp ==
    /\ op = "idle"
    /\ \E T \in AllTypes, U \in AllTypes :
        /\ (T.kind = "record" \/ U.kind = "record") => (T = Never \/ U = Never \/ T.kind = "any")
        /\ Eval("MyExclude", <<T, U>>, TRUE, MyExclude(T, U))

MyExtractOp ==
    /\ op = "idle"
    /\ \E T \in AllTypes, U \in AllTypes :
        /\ (T.kind = "record" \/ U.kind = "record") => (T = Never \/ U = Never \/ T.kind = "any")
        /\ Eval("MyExtract", <<T, U>>, TRUE, MyExtract(T, U))

MyReadonlyOp ==
    /\ op = "idle"
    /\ \E T \in RecordTypes : Eval("MyReadonly", <<T>>, TRUE, MyReadonly(T))

MyMutableOp ==
    /\ op = "idle"
    /\ \E T \in RecordTypes : Eval("MyMutable", <<T>>, TRUE, MyMutable(T))

EqualOp ==
    /\ op = "idle"
    /\ \E X \in EqualTypes, Y \in EqualTypes : Eval("Equal", <<X, Y>>, TRUE, Equal(X, Y))

\* Equal of one object type literal and the same literal with its
\* property declarations in another order.
EqualLiteralOp ==
    /\ op = "idle"
    /\ \E d \in Decls, e \in Decls :
        /\ {d[i] : i \in DOMAIN d} = {e[i] : i \in DOMAIN e}
        /\ Eval("EqualLiteral", <<d, e>>, TRUE, Equal(TypeLiteral(d), TypeLiteral(e)))

IsAnyOp ==
    /\ op = "idle"
    /\ \E T \in AllTypes : Eval("IsAny", <<T>>, TRUE, IsAny(T))

NotAnyOp ==
    /\ op = "idle"
    /\ \E T \in AllTypes : Eval("NotAny", <<T>>, TRUE, NotAny(T))

ExpectOp ==
    /\ op = "idle"
    /\ \E T \in AllTypes : Eval("Expect", <<T>>, Satisfies(T, True), Expect(T))

SomeReadonlyOp ==
    /\ op = "idle"
    /\ \E T \in RecordTypes, K \in KeyUnions :
        Eval("SomeReadonly", <<T, K>>, Satisfies(K, KeyOf(T)), SomeReadonly(T, K))

\* DeepReadonly<T>: the instantiation of the alias for T, then one step for
\* every instantiation DeepReadonly<T[P]> it asks for in turn; the type is
\* resolved when none is outstanding.
DeepReadonlyOp ==
    /\ op = "idle"
    /\ \E T \in DeepTypes :
        /\ op' = "DeepReadonly"
        /\ args' = <<T>>
        /\ verdict' = "evaluating"
        /\ res' = NoType
        /\ pending' = <<T>>
        /\ steps' = 0

DeepReadonlyStep ==
    /\ op = "DeepReadonly"
    /\ pending # << >>
    /\ pending' = NestedInstantiations(Head(pending)) \o Tail(pending)
    /\ steps' = steps + 1
    /\ IF pending' = << >>
       THEN /\ verdict' = "accepted"
            /\ res' = DeepReadonly(args[1])
       ELSE UNCHANGED <<verdict, res>>
    /\ UNCHANGED <<op, args>>

RemovePrefixOp ==
    /\ op = "idle"
    /\ \E d \in PrefixedDecls, P \in Prefixes :
        Eval("RemovePrefix", <<d, P>>, TRUE, RemovePrefix(d, P))

ConditionalRenameOp ==
    /\ op = "idle"
    /\ \E d \in Decls, Condition \in KeyUnions, NewName \in NewNames :
        Eval("ConditionalRename", <<d, Condition, NewName>>, TRUE,
             ConditionalRename(d, Condition, NewName))

IdentityRenameOp ==
    /\ op = "idle"
    /\ \E d \in Decls :
        Eval("IdentityRename", <<d>>, TRUE, IdentityRename(d))

DebugOp ==
    /\ op = "idle"
    /\ \E T \in RecordTypes :
        Eval("Debug", <<T>>, TRUE, Debug(T))

\* MyPick<MyOmit<T, never>, keyof T>
MyPickOfMyOmitOp ==
    /\ op = "idle"
    /\ \E T \in RecordTypes :
        Eval("MyPickOfMyOmit", <<T>>,
             /\ Satisfies(Never, KeyOf(T))
             /\ Satisfies(KeyOf(T), KeyOf(MyOmit(T, Never))),
             MyPick(MyOmit(T, Never), KeyOf(T)))

AlikeOp ==
    /\ op = "idle"
    /\ \E X \in AlikeRecords \cup AlikeIntersections, Y \in AlikeRecords :
        Eval("Alike", <<X, Y>>, TRUE, Alike(X, Y))

TupleToObjectOp ==
    /\ op = "idle"
    /\ \E T \in Tuples \cup {Record(NoAttrs)} :
        Eval("TupleToObject", <<T>>, ExtendsReadonlyArray(T), TupleToObject(T))

Next ==
    \/ MyPickOp
    \/ MyOmitOp
    \/ MyExcludeOp
    \/ MyExtractOp
    \/ MyReadonlyOp
    \/ MyMutableOp
    \/ EqualOp
    \/ EqualLiteralOp
    \/ IsAnyOp
    \/ NotAnyOp
    \/ ExpectOp
    \/ SomeReadonlyOp
    \/ DeepReadonlyOp
    \/ DeepReadonlyStep
    \/ RemovePrefixOp
    \/ ConditionalRenameOp
    \/ IdentityRenameOp
    \/ DebugOp
    \/ MyPickOfMyOmitOp
    \/ AlikeOp
    \/ TupleToObjectOp

Spec == Init /\ [][Next]_vars

(***************************************************************************)
(* Properties.                                                             *)
(***************************************************************************)
\* The members of a type seen as a sum type: a type that is no union is
\* its own single member.
Members(T) == IF T.kind = "union" THEN {Lit(m) : m \in T.members} ELSE {T}

\* The union of a subset Ms of the members of T.
UnionOfMembers(T, Ms) ==
    IF Ms = {} THEN Never
    ELSE IF T.kind = "union" THEN Union(UNION {M.members : M \in Ms})
    ELSE T

\* Two types share no member.
Disjoint(A, B) == A = Never \/ B = Never \/ Members(A) \cap Members(B) = {}

\* A record type as its set of (name, valueType, readonly, optional) attributes.
AttrSet(T) ==
    {<<p, T.attrs[p].vt, T.attrs[p].ro, T.attrs[p].opt>> : p \in DOMAIN T.attrs}

\* The value type an attribute was declared with (an optional attribute's
\* value type holds undefined on top of it).
DeclaredVt(a) == IF a.opt THEN a.vt.members \ {"undefined"} ELSE a.vt.members

\* X and Y are records over the same keys that differ in the readonly flag
\* of exactly one attribute and in nothing else.
DifferOnlyInReadonly(X, Y) ==
    /\ X.kind = "record" /\ Y.kind = "record"
    /\ DOMAIN X.attrs = DOMAIN Y.attrs
    /\ \E p \in DOMAIN X.attrs :
          /\ X.attrs[p].ro # Y.attrs[p].ro
          /\ X.attrs[p].opt = Y.attrs[p].opt
          /\ X.attrs[p].vt = Y.attrs[p].vt
          /\ \A q \in DOMAIN X.attrs \ {p} : X.attrs[q] = Y.attrs[q]

\* X and Y are records over the same keys that differ in the optional flag
\* of exactly one attribute and in nothing else.
DifferOnlyInOptional(X, Y) ==
    /\ X.kind = "record" /\ Y.kind = "record"
    /\ DOMAIN X.attrs = DOMAIN Y.attrs
    /\ \E p \in DOMAIN X.attrs :
          /\ X.attrs[p].opt # Y.attrs[p].opt
          /\ X.attrs[p].ro = Y.attrs[p].ro
          /\ DeclaredVt(X.attrs[p]) = DeclaredVt(Y.attrs[p])
          /\ \A q \in DOMAIN X.attrs \ {p} : X.attrs[q] = Y.attrs[q]

\* C1: for every record T and every K that is a subset of T's keys,
\* MyPick<T, K> is accepted and has exactly the attributes named in K, each
\* with T's value type, readonly flag and optional flag.
C1_PickKeepsNamedAttributes ==
    (op = "MyPick" /\ args[2].members \subseteq DOMAIN args[1].attrs) =>
        /\ verdict = "accepted"
        /\ res.kind = "record"
        /\ DOMAIN res.attrs = args[2].members
        /\ \A p \in args[2].members :
              /\ res.attrs[p].vt = args[1].attrs[p].vt
              /\ res.attrs[p].ro = args[1].attrs[p].ro
              /\ res.attrs[p].opt = args[1].attrs[p].opt

\* C1 witness: a proper, non-empty pick that carries a readonly optional
\* attribute over.
C1_Witness ==
    /\ op = "MyPick" /\ verdict = "accepted"
    /\ args[2].members # {} /\ args[2].members # DOMAIN args[1].attrs
    /\ \E p \in DOMAIN res.attrs : res.attrs[p].ro /\ res.attrs[p].opt

\* C2 (as claimed): for every record T and every K that is a subset of T's
\* keys, MyOmit<T, K> has the key set keys(T) minus K and is Equal, value
\* types and modifiers included, to Pick<T, Exclude<keyof T, K>>.
C2_OmitEqualsPickOfExclude ==
    (op = "MyOmit" /\ args[2].members \subseteq DOMAIN args[1].attrs) =>
        /\ verdict = "accepted"
        /\ DOMAIN res.attrs = DOMAIN args[1].attrs \ args[2].members
        /\ Equal(res, DocOmit(args[1], args[2])) = True

\* C3 (as claimed): MyExclude<Union, U> is exactly the union of the members
\* M of Union for which Conforms(M, U) is false, whatever Union is.
C3_ExcludeDropsConformingMembers ==
    op = "MyExclude" =>
        res = UnionOfMembers(args[1], {M \in Members(args[1]) : ~ Conforms(M, args[2])})

\* C3 (amended): for every Union other than the top type any,
\* MyExclude<Union, U> is exactly the union of the members M of Union for
\* which Conforms(M, U) is false, each decided on its own; MyExclude<any, U>
\* is any, unless U is any or unknown, when it is never.
C3_ExcludeDropsConformingMembersExceptAny ==
    op = "MyExclude" =>
        IF args[1].kind = "any"
        THEN res = IF args[2].kind \in {"any", "unknown"} THEN Never ELSE Any
        ELSE res = UnionOfMembers(args[1],
                                  {M \in Members(args[1]) : ~ Conforms(M, args[2])})

\* C3 witness: Exclude<"a" | "b" | "c", "a"> is "b" | "c".
C3_Witness ==
    /\ op = "MyExclude"
    /\ args = <<Union({"a", "b", "c"}), Lit("a")>>
    /\ res = Union({"b", "c"})

\* C4: for every type X, MyExclude<X, never> is X and MyExclude<never, X>
\* is never.
C4_ExcludeNeverLaws ==
    op = "MyExclude" =>
        /\ args[2] = Never => res = args[1]
        /\ args[1] = Never => res = Never

\* C4 witness: excluding never from a union of several members.
C4_Witness ==
    /\ op = "MyExclude"
    /\ args[2] = Never
    /\ Cardinality(args[1].members) >= 2
    /\ res = args[1]

\* C5 (as claimed): MyExtract<Union, U> keeps a member M iff Conforms(M, U),
\* so for every Union and U, MyExtract<Union, U> and MyExclude<Union, U>
\* are disjoint and their union is exactly Union.
C5_ExtractExcludePartition ==
    op = "MyExtract" =>
        /\ res = UnionOfMembers(args[1], {M \in Members(args[1]) : Conforms(M, args[2])})
        /\ Disjoint(res, MyExclude(args[1], args[2]))
        /\ UnionOf(res, MyExclude(args[1], args[2])) = args[1]

\* C5 (amended): for every Union other than the top type any and every U,
\* MyExtract<Union, U> keeps a member M iff Conforms(M, U), and
\* MyExtract<Union, U> and MyExclude<Union, U> are disjoint and their union
\* is exactly Union; MyExtract<any, U> is any for every U, and so is
\* MyExclude<any, U> unless U is any or unknown.
C5_ExtractExcludePartitionExceptAny ==
    op = "MyExtract" =>
        IF args[1].kind = "any"
        THEN /\ res = Any
             /\ MyExclude(args[1], args[2])
                   = IF args[2].kind \in {"any", "unknown"} THEN Never ELSE Any
        ELSE /\ res = UnionOfMembers(args[1],
                                     {M \in Members(args[1]) : Conforms(M, args[2])})
             /\ Disjoint(res, MyExclude(args[1], args[2]))
             /\ UnionOf(res, MyExclude(args[1], args[2])) = args[1]

\* C5 witness: an extraction that keeps some members and drops others.
C5_Witness ==
    /\ op = "MyExtract"
    /\ args[1].kind = "union"
    /\ res # Never /\ res # args[1]
    /\ MyExclude(args[1], args[2]) # Never

\* C6 (as claimed): on record types Equal<X, Y> is true exactly when X and Y
\* have the same set of (name, valueType, readonly, optional) attributes,
\* whatever the order of declaration; two records that differ only in the
\* readonly flag of one attribute, or only in the optional flag of one
\* attribute, are not Equal although each is assignable to the other.
C6_EqualIsAttributeSetEquality ==
    /\ (op = "Equal" /\ args[1].kind = "record" /\ args[2].kind = "record") =>
          /\ res = True <=> AttrSet(args[1]) = AttrSet(args[2])
          /\ res \in {True, False}
          /\ (DifferOnlyInReadonly(args[1], args[2]) \/ DifferOnlyInOptional(args[1], args[2])) =>
                /\ res = False
                /\ Assignable(args[1], args[2])
                /\ Assignable(args[2], args[1])
    /\ op = "EqualLiteral" => res = True

\* C6 (amended): on record types Equal<X, Y> is true exactly when X and Y
\* have the same set of (name, valueType, readonly, optional) attributes,
\* whatever the order of declaration; two records that differ only in the
\* readonly flag of one attribute are not Equal although each is assignable
\* to the other; two records that differ only in the optional flag of one
\* attribute are not Equal, and only the one in which the attribute is
\* required is assignable to the other.
C6_EqualIsAttributeSetEqualityOptionalOneWay ==
    /\ (op = "Equal" /\ args[1].kind = "record" /\ args[2].kind = "record") =>
          /\ res = True <=> AttrSet(args[1]) = AttrSet(args[2])
          /\ res \in {True, False}
          /\ DifferOnlyInReadonly(args[1], args[2]) =>
                /\ res = False
                /\ Assignable(args[1], args[2])
                /\ Assignable(args[2], args[1])
          /\ DifferOnlyInOptional(args[1], args[2]) =>
                /\ res = False
                /\ \A p \in DOMAIN args[1].attrs :
                      args[1].attrs[p].opt # args[2].attrs[p].opt =>
                          /\ Assignable(args[1], args[2]) <=> args[2].attrs[p].opt
                          /\ Assignable(args[2], args[1]) <=> args[1].attrs[p].opt
    /\ op = "EqualLiteral" => res = True

\* C6 witness: Equal<{a?: ..}, {a: ..}> is false, and the first is not
\* assignable to the second.
C6_Witness ==
    /\ op = "Equal"
    /\ DifferOnlyInOptional(args[1], args[2])
    /\ res = False
    /\ ~ Assignable(args[1], args[2])
    /\ Assignable(args[2], args[1])

\* C7: Equal is reflexive and symmetric: Equal<X, X> is true for every X,
\* and Equal<X, Y> has the value of Equal<Y, X> for every X and Y.
C7_EqualReflexiveSymmetric ==
    op = "Equal" =>
        /\ args[1] = args[2] => res = True
        /\ res = Equal(args[2], args[1])

\* C7 witness: Equal of a record and a record that extends it by one
\* attribute, which is false in both directions.
C7_Witness ==
    /\ op = "Equal"
    /\ args[1].kind = "record" /\ args[2].kind = "record"
    /\ AttrSet(args[1]) \subseteq AttrSet(args[2])
    /\ AttrSet(args[1]) # AttrSet(args[2])
    /\ AttrSet(args[1]) # {}
    /\ res = False

\* C8: IsAny<T> is true iff T is any; NotAny<T> is false exactly when
\* IsAny<T> is true; Equal<any, T> is false for every T other than any.
C8_IsAnyOnlyForAny ==
    /\ op = "IsAny" =>
          /\ res \in {True, False}
          /\ res = True <=> args[1] = Any
    /\ op = "NotAny" =>
          /\ res \in {True, False}
          /\ res = False <=> IsAny(args[1]) = True
          /\ res = False <=> args[1] = Any
    /\ (op = "Equal" /\ args[1] = Any /\ args[2] # Any) => res = False
    /\ (op = "Equal" /\ args[2] = Any /\ args[1] # Any) => res = False

\* C8 witness: IsAny<any> is true.
C8_Witness ==
    /\ op = "IsAny"
    /\ args[1] = Any
    /\ res = True

\* C9 (as claimed): Expect<T> is accepted iff T is the literal type true,
\* and a rejected Expect<T> has no result.
C9_ExpectAcceptsOnlyTrue ==
    op = "Expect" =>
        /\ verdict = "accepted" <=> args[1] = True
        /\ verdict = "rejected" => res = NoType

\* C10: for every record T, MyReadonly<T> has T's key set with readonly set
\* on every attribute and MyMutable<T> has T's key set with readonly cleared
\* on every attribute; neither changes an optional flag or a value type.
C10_ReadonlyToggleFrame ==
    (op \in {"MyReadonly", "MyMutable"}) =>
        /\ res.kind = "record"
        /\ DOMAIN res.attrs = DOMAIN args[1].attrs
        /\ \A p \in DOMAIN res.attrs :
              /\ res.attrs[p].ro = (op = "MyReadonly")
              /\ res.attrs[p].opt = args[1].attrs[p].opt
              /\ res.attrs[p].vt = args[1].attrs[p].vt

\* C10 witness: MyReadonly of a record with a writable optional attribute
\* next to a readonly one.
C10_Witness ==
    /\ op = "MyReadonly"
    /\ \E p, q \in DOMAIN args[1].attrs :
          /\ ~ args[1].attrs[p].ro /\ args[1].attrs[p].opt
          /\ args[1].attrs[q].ro
          /\ res.attrs[p].ro /\ res.attrs[p].opt


\* C11 (as claimed): for every record T and K a subset of T's keys,
\* SomeReadonly<T, K> with its two intersected parts merged into one record
\* has T's keys, readonly set on the attributes named in K, the original
\* readonly flag on every attribute outside K, and the original optional
\* flag and value type on every attribute.
C11_SomeReadonlyTogglesOnlyK ==
    (op = "SomeReadonly" /\ args[2].members \subseteq DOMAIN args[1].attrs) =>
        /\ verdict = "accepted"
        /\ LET M == MergeInsertions(res)
           IN  /\ M.kind = "record"
               /\ DOMAIN M.attrs = DOMAIN args[1].attrs
               /\ \A p \in DOMAIN M.attrs :
                     /\ M.attrs[p].ro = (p \in args[2].members \/ args[1].attrs[p].ro)
                     /\ M.attrs[p].opt = args[1].attrs[p].opt
                     /\ M.attrs[p].vt = args[1].attrs[p].vt


\* The record a value type holds, directly or as the declared type of an
\* optional property.
IsNestedRecord(V) ==
    \/ V.kind = "record"
    \/ V.kind = "objunion" /\ V.attrs["object"].vt.kind = "record"

RecordOf(V) == IF V.kind = "record" THEN V ELSE V.attrs["object"].vt

\* The number of levels of records in T, T's own included.
RECURSIVE NestingLevels(_)
NestingLevels(T) ==
    LET sub == {NestingLevels(RecordOf(T.attrs[p].vt)) :
                   p \in {q \in DOMAIN T.attrs : IsNestedRecord(T.attrs[q].vt)}}
    IN  IF sub = {} THEN 1 ELSE 1 + CHOOSE n \in sub : \A m \in sub : m <= n

\* R is T with every attribute at every level readonly and nothing else
\* changed.
RECURSIVE DeeplyMarked(_, _)
DeeplyMarked(T, R) ==
    /\ R.kind = "record"
    /\ DOMAIN R.attrs = DOMAIN T.attrs
    /\ \A p \in DOMAIN T.attrs :
          /\ R.attrs[p].ro
          /\ R.attrs[p].opt = T.attrs[p].opt
          /\ IF IsNestedRecord(T.attrs[p].vt)
             THEN /\ R.attrs[p].vt.kind = T.attrs[p].vt.kind
                  /\ R.attrs[p].vt.members = T.attrs[p].vt.members
                  /\ DeeplyMarked(RecordOf(T.attrs[p].vt), RecordOf(R.attrs[p].vt))
             ELSE R.attrs[p].vt = T.attrs[p].vt

\* C12 (as claimed): DeepReadonly<T> of a record T with at least two levels
\* of nesting has every attribute at every nesting level readonly, and the
\* value type of every attribute that holds no record is unchanged.
C12_DeepReadonlyMarksEveryLevel ==
    (op = "DeepReadonly" /\ verdict = "accepted" /\ NestingLevels(args[1]) >= 2) =>
        DeeplyMarked(args[1], res)

\* C18 (as claimed): DeepReadonly recurses into a value type only when it is
\* a record type; an attribute whose value type is an array or a function
\* becomes readonly and keeps its value type, and a record-valued attribute
\* holds the DeepReadonly of its record.
C18_DeepReadonlyRecursesIntoRecordsOnly ==
    (op = "DeepReadonly") =>
        /\ \A i \in DOMAIN pending : pending[i].kind = "record"
        /\ verdict = "accepted" =>
              \A p \in DOMAIN args[1].attrs :
                 /\ res.attrs[p].ro
                 /\ args[1].attrs[p].vt.kind \in {"array", "function"} =>
                       res.attrs[p].vt = args[1].attrs[p].vt
                 /\ args[1].attrs[p].vt.kind = "record" =>
                       /\ res.attrs[p].vt.kind = "record"
                       /\ \A q \in DOMAIN res.attrs[p].vt.attrs :
                             res.attrs[p].vt.attrs[q].ro

RECURSIVE SumSeq(_)
SumSeq(ns) == IF ns = << >> THEN 0 ELSE Head(ns) + SumSeq(Tail(ns))

\* The number of record nodes of T, T itself included.
RECURSIVE RecordNodes(_)
RecordNodes(T) ==
    1 + SumSeq([i \in 1..Len(KeyNames) |->
                  IF /\ KeyNames[i] \in DOMAIN T.attrs
                     /\ IsNestedRecord(T.attrs[KeyNames[i]].vt)
                  THEN RecordNodes(RecordOf(T.attrs[KeyNames[i]].vt))
                  ELSE 0])

\* The depth of a type: the longest chain of object types nested in it.
RECURSIVE Depth(_)
Depth(T) ==
    IF T.kind \in {"record", "array"}
    THEN LET sub == {Depth(T.attrs[p].vt) : p \in DOMAIN T.attrs}
         IN  1 + (IF sub = {} THEN 0 ELSE CHOOSE n \in sub : \A m \in sub : m <= n)
    ELSE IF T.kind = "objunion" THEN Depth(T.attrs["object"].vt)
    ELSE 0

\* C19 (as claimed): the instantiations of DeepReadonly, done and
\* outstanding, never outnumber the record nodes of the input, and every
\* outstanding instantiation but the first is of a type strictly shallower
\* than the input.
C19_DeepReadonlyStepsBoundedByRecordNodes ==
    (op = "DeepReadonly") =>
        /\ steps + Len(pending) <= RecordNodes(args[1])
        /\ \A i \in DOMAIN pending :
              steps > 0 => Depth(pending[i]) < Depth(args[1])

\* Every recursive step of DeepReadonly replaces an instantiation by
\* instantiations of strictly shallower types, and the evaluation of every
\* input is resolved when none is outstanding.
C19_StrictDescent ==
    [][DeepReadonlyStep =>
          /\ \A i \in 1..(Len(pending') - Len(pending) + 1) :
                Depth(pending'[i]) < Depth(Head(pending))
          /\ verdict' = "accepted" <=> pending' = << >>]_vars


\* The key a rename maps the declared name K of the evaluated expression to.
RenamedKey(K) ==
    IF op = "RemovePrefix" THEN RemovePrefixKey(K, args[2])
    ELSE Cond(Lit(K), args[2], args[3], Lit(K))

\* Two distinct attributes of the renamed record map to the same key.
Collides ==
    \E i, j \in DOMAIN args[1] :
        /\ i # j
        /\ RenamedKey(args[1][i].name).members
             \cap RenamedKey(args[1][j].name).members # {}

\* C13 (as claimed): every application of a renaming mapped type
\* (RemovePrefix, ConditionalRename) in which two distinct attributes map to
\* the same key is rejected, and yields no record.
C13_CollidingRenameRejected ==
    (op \in {"RemovePrefix", "ConditionalRename"} /\ Collides) =>
        /\ verdict = "rejected"
        /\ res = NoType

\* C14: a renaming mapped type whose key expression is the identity, and
\* Debug, yield a record Equal to T, modifiers included.
C14_IdentityRenameIsEqual ==
    /\ op = "IdentityRename" =>
          /\ verdict = "accepted"
          /\ Equal(res, TypeLiteral(args[1])) = True
          /\ res = TypeLiteral(args[1])
    /\ op = "Debug" =>
          /\ verdict = "accepted"
          /\ Equal(res, args[1]) = True

C14_Witness ==
    /\ op = "IdentityRename"
    /\ Len(args[1]) = 2
    /\ args[1][1].ro /\ ~ args[1][1].opt
    /\ args[1][2].opt /\ ~ args[1][2].ro
    /\ Equal(res, TypeLiteral(args[1])) = True

\* The ends of the string K: K itself, ..., its last character, "".
Suffixes(K) == {SubSeq(K, i, Len(K)) : i \in 1..(Len(K) + 1)}

\* C17: RemovePrefix<T, P> renames a key that is P followed by some
\* remainder to exactly that remainder, and leaves a key that does not
\* begin with the whole of P under its own name: the result has exactly
\* these keys, each with the value type of its source (of its sources,
\* united, where several keys are renamed to the same one).
C17_PrefixMatchAllOrNothing ==
    (op = "RemovePrefix") =>
        LET P == args[2]
            d == args[1]
            NewKey(K) == IF \E r \in Suffixes(K) : P \o r = K
                         THEN CHOOSE r \in Suffixes(K) : P \o r = K
                         ELSE K
        IN  /\ verdict = "accepted"
            /\ DOMAIN res.attrs = {NewKey(d[i].name) : i \in DOMAIN d}
            /\ \A i \in DOMAIN d :
                  \A m \in d[i].vt.members : m \in res.attrs[NewKey(d[i].name)].vt.members

C17_Witness ==
    /\ op = "RemovePrefix"
    /\ args[2] = "ab"
    /\ {args[1][i].name : i \in DOMAIN args[1]} = {"ab", "a"}
    /\ DOMAIN res.attrs = {"", "a"}


\* C15 (as claimed): for every record T, readonly and optional attributes
\* included, MyPick<MyOmit<T, never>, keyof T> is accepted and Equal to T.
C15_PickOfOmitNothingIsIdentity ==
    (op = "MyPickOfMyOmit") =>
        /\ verdict = "accepted"
        /\ Equal(res, args[1]) = True


\* Y is the one record that has the attributes of both A and B.
IsMergeOf(Y, A, B) ==
    /\ DOMAIN Y.attrs = DOMAIN A.attrs \cup DOMAIN B.attrs
    /\ \A p \in DOMAIN A.attrs : Y.attrs[p] = A.attrs[p]
    /\ \A p \in DOMAIN B.attrs : Y.attrs[p] = B.attrs[p]

Elements(T) == UNION {T.attrs[i].vt.members : i \in DOMAIN T.attrs}

\* C20 (as claimed): TupleToObject<T> of a tuple T of literals, readonly or
\* not, is the record whose keys are exactly the distinct elements of T,
\* each with the key itself as value type, whatever the order and the
\* duplicates of the elements; the empty tuple gives the empty record.
C20_TupleToObjectKeysAreElements ==
    (op = "TupleToObject" /\ args[1].kind = "tuple") =>
        /\ verdict = "accepted"
        /\ res.kind = "record"
        /\ DOMAIN res.attrs = Elements(args[1])
        /\ \A k \in DOMAIN res.attrs : res.attrs[k].vt = Lit(k)

====
